---- MODULE Spec2Model ----
(***************************************************************************)
(* The application screening pipeline of OneClickApply:                    *)
(* processApplicationAI (src/server/routes.ts:258-339) running against the *)
(* screening_results table (src/shared/schema.ts:77-88) through            *)
(* DatabaseStorage (src/README.md:209-285).                                *)
(*                                                                         *)
(* Every await of processApplicationAI is a suspension point, so each      *)
(* storage call and the provider call is one action and the runs of        *)
(* different triggers interleave between them.                             *)
(***************************************************************************)
EXTENDS Integers, Sequences, FiniteSets, TLC

\* Number of screening triggers issued in one behaviour.
MaxRuns == 2

Runs == 1..MaxRuns

\* Number of apply requests issued in one behaviour.
MaxApplies == 2

ApplyRequests == 1..MaxApplies

\* applicationId values a trigger may carry: 1 and 2 are rows of the
\* applications table, 3 is an identifier no application has before an apply
\* request creates one.
AppIdInputs == {1, 2, 3}

\* jobs.id and users.id values present in the database.
JobIds == {1, 2}
UserIds == {1, 2}

\* What a run reads of a job and of a seeker's profile to build the prompt.
JobFacts ==
  [j \in JobIds |-> [requiredSkills |-> {"React", "Node.js"}, minYears |-> 5]]
SeekerFacts ==
  [u \in UserIds |->
     [skills |-> {"React", "Node.js", "TypeScript"}, experienceYears |-> 6]]

\* A nullable column: NULL, or Some(v) for the value v.
NULL == <<>>
Some(v) == <<v>>

AiStatus == {"pending", "processing", "complete", "failed"}

\* The columns of screening_results that a run may write.
ResultColumns ==
  {"rulesScore", "semanticScore", "finalScore", "reasons", "aiSummary", "aiQuestions"}

VARIABLES
  applications,     \* the applications table: id -> row
  screeningResults, \* the screening_results table: sequence indexed by the serial id
  runs,             \* one record per invocation of processApplicationAI
  openai,           \* TRUE iff the OpenAI client was constructed at start-up
  applies           \* one record per request to the apply handler

vars == <<applications, screeningResults, runs, openai, applies>>

----------------------------------------------------------------------------
\* The provider's answers.

\* The literal used when no API key is configured.
MockResponse ==
  [rulesScore |-> 85, semanticScore |-> 80, finalScore |-> 82,
   reasons |-> <<"Matches required skills", "Good experience">>,
   summary |-> "Strong candidate with relevant experience.",
   questions |-> <<"Describe your experience with React.",
                   "How do you handle state management?">>]

\* Objects JSON.parse can return for a provider completion.  A field the
\* object lacks is outside the record's domain (undefined in the program).
ProviderResponses ==
  { [rulesScore |-> 50, semanticScore |-> 50, finalScore |-> 50,
     reasons |-> <<"ok">>, summary |-> "fits", questions |-> <<"q1">>],
    [rulesScore |-> 100, semanticScore |-> 0, finalScore |-> 90,
     reasons |-> <<"skills">>, summary |-> "mixed", questions |-> <<"q2">>],
    [rulesScore |-> 70],
    [rulesScore |-> 150, semanticScore |-> 50, finalScore |-> 110,
     reasons |-> <<"over">>, summary |-> "off scale", questions |-> <<"q3">>] }

NoResponse == [none |-> TRUE]

----------------------------------------------------------------------------
\* Storage.

\* storage.getApplication: the application joined with its job and seeker;
\* no row comes back when the application, its job or its seeker is missing.
getApplication(id) ==
  /\ id \in DOMAIN applications
  /\ applications[id].jobId \in JobIds
  /\ applications[id].seekerId \in UserIds

\* Variant of getScreeningResult: the query lacks its where clause.
getScreeningResult_AnyRow(applicationId) ==
  IF screeningResults = <<>> THEN {0} ELSE 1..Len(screeningResults)

\* storage.getScreeningResult: the ids the query can return as its first row
\* (the query has no ORDER BY and the column no unique constraint), or {0}
\* when no row matches (undefined in the program).
getScreeningResult(applicationId) ==
  LET matching == {id \in 1..Len(screeningResults) :
                     screeningResults[id].applicationId = applicationId}
  IN IF matching = {} THEN {0} ELSE matching

\* storage.createScreeningResult: insert with the serial id; columns not
\* given are NULL.
createScreeningResult(insertResult) ==
  Append(screeningResults,
         [applicationId |-> insertResult.applicationId,
          rulesScore |-> NULL, semanticScore |-> NULL, finalScore |-> NULL,
          reasons |-> NULL, aiSummary |-> NULL, aiQuestions |-> NULL,
          aiStatus |-> insertResult.aiStatus])

\* storage.updateScreeningResult: set the given columns of the row with this
\* id; a column absent from updates (undefined) is left as it is.
updateScreeningResult(id, updates) ==
  [screeningResults EXCEPT ![id] =
     [c \in DOMAIN @ |-> IF c \in DOMAIN updates THEN updates[c] ELSE @[c]]]

\* The field of the provider's object that the terminal update writes to
\* each column.
ResponseField ==
  [rulesScore |-> "rulesScore", semanticScore |-> "semanticScore",
   finalScore |-> "finalScore", reasons |-> "reasons",
   aiSummary |-> "summary", aiQuestions |-> "questions"]

\* The object passed to the terminal update of a successful run.
CompleteUpdates(aiResponse) ==
  LET defined == {c \in ResultColumns : ResponseField[c] \in DOMAIN aiResponse}
  IN [c \in defined \cup {"aiStatus"} |->
        IF c = "aiStatus" THEN "complete" ELSE Some(aiResponse[ResponseField[c]])]

\* Variant of FailedUpdates: the failure write also resets the scores.
FailedUpdates_ClearsScores ==
  [aiStatus |-> "failed", rulesScore |-> NULL, semanticScore |-> NULL,
   finalScore |-> NULL]

\* The object passed to the update of the catch block.
FailedUpdates == [aiStatus |-> "failed"]

----------------------------------------------------------------------------
\* Runs of processApplicationAI.

IdleRun ==
  [pc |-> "idle", appId |-> 0, screening |-> 0, aiResponse |-> NoResponse,
   err |-> "none", outcome |-> "none", retryOf |-> 0, responded |-> FALSE]

IdleApply ==
  [pc |-> "idle", seekerId |-> 0, jobId |-> 0, already |-> FALSE, response |-> 0]

InFlight(r) == runs[r].pc \notin {"idle", "done"}

Finish(r, outcome) ==
  [runs EXCEPT ![r].pc = "done", ![r].outcome = outcome,
               ![r].screening = 0, ![r].aiResponse = NoResponse]

Init ==
  /\ applications = [id \in {1, 2} |->
                       [jobId |-> 1, seekerId |-> id, status |-> "applied"]]
  /\ screeningResults = <<>>
  /\ runs = [r \in Runs |-> IdleRun]
  /\ openai \in BOOLEAN
  /\ applies = [q \in ApplyRequests |-> IdleApply]

\* processApplicationAI(applicationId) called without await: the run r starts
\* and stops at its first await, and the calling handler goes on to send its
\* response (responded).  retryOf records the row a retry starts from: the
\* application's only row, in failed, with no other run of the application in
\* flight.
StartRun(r, applicationId, responded) ==
  /\ runs[r].pc = "idle"
  /\ \A q \in Runs : q < r => runs[q].pc # "idle"
  /\ LET found == getScreeningResult(applicationId)
         alone == \A q \in Runs : InFlight(q) => runs[q].appId # applicationId
         retry == IF /\ alone
                     /\ Cardinality(found) = 1
                     /\ found # {0}
                     /\ \A id \in found : screeningResults[id].aiStatus = "failed"
                  THEN CHOOSE id \in found : TRUE ELSE 0
     IN runs' = [runs EXCEPT ![r].pc = "getApplication",
                             ![r].appId = applicationId,
                             ![r].retryOf = retry,
                             ![r].responded = responded]

\* Variant of Trigger: the handler awaits the run before it responds.
Trigger_AwaitsRun(r, applicationId) ==
  /\ StartRun(r, applicationId, FALSE)
  /\ UNCHANGED <<applications, screeningResults, openai, applies>>

\* The manual re-process handler: parse the body, start the run, respond.
Trigger(r, applicationId) ==
  /\ StartRun(r, applicationId, TRUE)
  /\ UNCHANGED <<applications, screeningResults, openai, applies>>

\* storage.listApplicationsForSeeker(seekerId).some(a => a.jobId === jobId)
alreadyApplied(seekerId, jobId) ==
  \E id \in DOMAIN applications :
    /\ applications[id].seekerId = seekerId
    /\ applications[id].jobId = jobId

\* storage.createApplication: insert with the serial id.
createApplication(insertApp) ==
  LET id == Cardinality(DOMAIN applications) + 1
  IN [a \in DOMAIN applications \cup {id} |->
        IF a = id THEN insertApp ELSE applications[a]]

\* The apply handler up to its first await: the seeker is authenticated, the
\* body parses, and the seeker's applications are read and searched.
ApplyList(q, seekerId, jobId) ==
  /\ applies[q].pc = "idle"
  /\ \A p \in ApplyRequests : p < q => applies[p].pc # "idle"
  /\ applies' = [applies EXCEPT ![q] =
                   [pc |-> "listed", seekerId |-> seekerId, jobId |-> jobId,
                    already |-> alreadyApplied(seekerId, jobId), response |-> 0]]
  /\ UNCHANGED <<applications, screeningResults, runs, openai>>

\* return res.status(400).json({ message: "Already applied" })
ApplyReject(q) ==
  /\ applies[q].pc = "listed"
  /\ applies[q].already
  /\ applies' = [applies EXCEPT ![q] = [IdleApply EXCEPT !.pc = "done",
                                                         !.response = 400]]
  /\ UNCHANGED <<applications, screeningResults, runs, openai>>

\* Variant of ApplyCreate: the run is started with the job's id instead of
\* the id of the application inserted.
ApplyCreate_TriggersJobId(q, r) ==
  /\ applies[q].pc = "listed"
  /\ ~applies[q].already
  /\ applications' =
       createApplication([jobId |-> applies[q].jobId,
                          seekerId |-> applies[q].seekerId,
                          status |-> "applied"])
  /\ StartRun(r, applies[q].jobId, TRUE)
  /\ applies' = [applies EXCEPT ![q] = [IdleApply EXCEPT !.pc = "done",
                                                         !.response = 201]]
  /\ UNCHANGED <<screeningResults, openai>>

\* The application is inserted, its screening run r is started and the
\* response 201 is sent.  The insert and the continuation of the handler are
\* one step: the continuation reads nothing but the id of the row inserted.
ApplyCreate(q, r) ==
  /\ applies[q].pc = "listed"
  /\ ~applies[q].already
  /\ applications' =
       createApplication([jobId |-> applies[q].jobId,
                          seekerId |-> applies[q].seekerId,
                          status |-> "applied"])
  /\ StartRun(r, Cardinality(DOMAIN applications) + 1, TRUE)
  /\ applies' = [applies EXCEPT ![q] = [IdleApply EXCEPT !.pc = "done",
                                                         !.response = 201]]
  /\ UNCHANGED <<screeningResults, openai>>

\* Status values the employer's requests carry.
StatusInputs == {"screened", "rejected"}

\* The employer's status-update handler: storage.updateApplicationStatus.
UpdateStatus(id, status) ==
  /\ id \in DOMAIN applications
  /\ applications' = [applications EXCEPT ![id].status = status]
  /\ UNCHANGED <<screeningResults, runs, openai, applies>>

\* Variant of GetApplication: the early return on a missing application is
\* absent.
GetApplication_NoGuard(r) ==
  /\ runs[r].pc = "getApplication"
  /\ runs' = [runs EXCEPT ![r].pc = "getScreeningResult"]
  /\ UNCHANGED <<applications, screeningResults, openai, applies>>

\* const app = await storage.getApplication(applicationId); if (!app) return;
GetApplication(r) ==
  /\ runs[r].pc = "getApplication"
  /\ runs' = IF getApplication(runs[r].appId)
             THEN [runs EXCEPT ![r].pc = "getScreeningResult"]
             ELSE Finish(r, "aborted")
  /\ UNCHANGED <<applications, screeningResults, openai, applies>>

\* let screening = await storage.getScreeningResult(applicationId);
GetScreeningResult(r) ==
  /\ runs[r].pc = "getScreeningResult"
  /\ \E id \in getScreeningResult(runs[r].appId) :
       runs' = [runs EXCEPT ![r].pc = "ensure", ![r].screening = id]
  /\ UNCHANGED <<applications, screeningResults, openai, applies>>

\* if (!screening) screening = await storage.createScreeningResult({...})
CreateScreeningResult(r) ==
  /\ runs[r].pc = "ensure"
  /\ runs[r].screening = 0
  /\ screeningResults' =
       createScreeningResult([applicationId |-> runs[r].appId,
                              aiStatus |-> "processing"])
  /\ runs' = [runs EXCEPT ![r].pc = "evaluate",
                          ![r].screening = Len(screeningResults) + 1]
  /\ UNCHANGED <<applications, openai, applies>>

\* Variant of UpdateProcessing: going back to processing resets the scores.
UpdateProcessing_ClearsScores(r) ==
  /\ runs[r].pc = "ensure"
  /\ runs[r].screening # 0
  /\ screeningResults' =
       updateScreeningResult(runs[r].screening,
         [aiStatus |-> "processing", rulesScore |-> NULL,
          semanticScore |-> NULL, finalScore |-> NULL])
  /\ runs' = [runs EXCEPT ![r].pc = "evaluate"]
  /\ UNCHANGED <<applications, openai, applies>>

\* Variant of UpdateProcessing: a found row is not reused, a new one is
\* inserted.
UpdateProcessing_Inserts(r) ==
  /\ runs[r].pc = "ensure"
  /\ runs[r].screening # 0
  /\ screeningResults' =
       createScreeningResult([applicationId |-> runs[r].appId,
                              aiStatus |-> "processing"])
  /\ runs' = [runs EXCEPT ![r].pc = "evaluate",
                          ![r].screening = Len(screeningResults) + 1]
  /\ UNCHANGED <<applications, openai, applies>>

\* else await storage.updateScreeningResult(screening.id, {aiStatus: "processing"})
UpdateProcessing(r) ==
  /\ runs[r].pc = "ensure"
  /\ runs[r].screening # 0
  /\ screeningResults' =
       updateScreeningResult(runs[r].screening, [aiStatus |-> "processing"])
  /\ runs' = [runs EXCEPT ![r].pc = "evaluate"]
  /\ UNCHANGED <<applications, openai, applies>>

\* Variant of Evaluate: the provider is called whether or not a key is
\* configured.
Evaluate_IgnoresKey(r) ==
  /\ runs[r].pc = "evaluate"
  /\ \E aiResponse \in ProviderResponses :
       runs' = [runs EXCEPT ![r].pc = "complete", ![r].aiResponse = aiResponse]
  /\ UNCHANGED <<applications, screeningResults, openai, applies>>

\* The delay, the prompt and the provider call (or the mock literal): the
\* answer parses to an object.
Evaluate(r) ==
  /\ runs[r].pc = "evaluate"
  /\ \E aiResponse \in IF openai THEN ProviderResponses ELSE {MockResponse} :
       runs' = [runs EXCEPT ![r].pc = "complete", ![r].aiResponse = aiResponse]
  /\ UNCHANGED <<applications, screeningResults, openai, applies>>

\* Variant of EvaluateThrows: the failure is swallowed and the run goes on
\* with an object of defaults.
EvaluateThrows_Defaults(r) ==
  /\ runs[r].pc = "evaluate"
  /\ openai
  /\ runs' = [runs EXCEPT ![r].pc = "complete", ![r].err = "provider",
                          ![r].aiResponse = [rulesScore |-> 0, semanticScore |-> 0,
                                             finalScore |-> 0]]
  /\ UNCHANGED <<applications, screeningResults, openai, applies>>

\* The provider call rejects (transport error) or JSON.parse throws.
EvaluateThrows(r) ==
  /\ runs[r].pc = "evaluate"
  /\ openai
  /\ runs' = [runs EXCEPT ![r].pc = "catchGet", ![r].err = "provider"]
  /\ UNCHANGED <<applications, screeningResults, openai, applies>>

\* Variant of CompleteWrite: the result columns are written without the
\* status.
CompleteWrite_WithoutStatus(r) ==
  /\ runs[r].pc = "complete"
  /\ screeningResults' =
       updateScreeningResult(runs[r].screening,
         [c \in DOMAIN CompleteUpdates(runs[r].aiResponse) \ {"aiStatus"} |->
            CompleteUpdates(runs[r].aiResponse)[c]])
  /\ runs' = Finish(r, "complete")
  /\ UNCHANGED <<applications, openai, applies>>

\* Variant of CompleteWrite: a successful run also marks the application
\* screened.
CompleteWrite_MarksScreened(r) ==
  /\ runs[r].pc = "complete"
  /\ screeningResults' =
       updateScreeningResult(runs[r].screening, CompleteUpdates(runs[r].aiResponse))
  /\ applications' = [applications EXCEPT ![runs[r].appId].status = "screened"]
  /\ runs' = Finish(r, "complete")
  /\ UNCHANGED <<openai, applies>>

\* await storage.updateScreeningResult(screening.id, {..., aiStatus: "complete"})
CompleteWrite(r) ==
  /\ runs[r].pc = "complete"
  /\ screeningResults' =
       updateScreeningResult(runs[r].screening, CompleteUpdates(runs[r].aiResponse))
  /\ runs' = Finish(r, "complete")
  /\ UNCHANGED <<applications, openai, applies>>

\* Variant of CatchGet: the catch block only logs.
CatchGet_OnlyLogs(r) ==
  /\ runs[r].pc = "catchGet"
  /\ runs' = Finish(r, "failed")
  /\ UNCHANGED <<applications, screeningResults, openai, applies>>

\* catch: const screening = await storage.getScreeningResult(applicationId);
\* if (screening) ... else the run ends.
CatchGet(r) ==
  /\ runs[r].pc = "catchGet"
  /\ \E id \in getScreeningResult(runs[r].appId) :
       runs' = IF id = 0
               THEN Finish(r, "failed")
               ELSE [runs EXCEPT ![r].pc = "catchUpdate", ![r].screening = id]
  /\ UNCHANGED <<applications, screeningResults, openai, applies>>

\* catch: await storage.updateScreeningResult(screening.id, {aiStatus: "failed"})
CatchUpdate(r) ==
  /\ runs[r].pc = "catchUpdate"
  /\ screeningResults' = updateScreeningResult(runs[r].screening, FailedUpdates)
  /\ runs' = Finish(r, "failed")
  /\ UNCHANGED <<applications, openai, applies>>

\* A storage call inside the try block rejects; the call has no effect on the
\* tables and control passes to the catch block.  err keeps whether it was
\* the read of the application with its job and seeker.
StorageThrows(r) ==
  /\ runs[r].pc \in {"getApplication", "getScreeningResult", "ensure", "complete"}
  /\ runs' = [runs EXCEPT ![r].pc = "catchGet",
                          ![r].err = IF runs[r].pc = "getApplication"
                                     THEN "getApplication" ELSE "storage",
                          ![r].aiResponse = NoResponse]
  /\ UNCHANGED <<applications, screeningResults, openai, applies>>

\* A storage call inside the catch block rejects: nothing encloses it, so the
\* promise of the run rejects.
HandlerThrows(r) ==
  /\ runs[r].pc \in {"catchGet", "catchUpdate"}
  /\ runs' = Finish(r, "rejected")
  /\ UNCHANGED <<applications, screeningResults, openai, applies>>

\* The steps of the program while every storage call succeeds.
NextReliable ==
  \E r \in Runs :
    \/ \E applicationId \in AppIdInputs : Trigger(r, applicationId)
    \/ GetApplication(r)
    \/ GetScreeningResult(r)
    \/ CreateScreeningResult(r)
    \/ UpdateProcessing(r)
    \/ Evaluate(r)
    \/ EvaluateThrows(r)
    \/ CompleteWrite(r)
    \/ CatchGet(r)
    \/ CatchUpdate(r)

Next ==
  \/ NextReliable
  \/ \E r \in Runs : StorageThrows(r) \/ HandlerThrows(r)

\* Storage calls may reject at any await.
Spec == Init /\ [][Next]_vars

\* Every storage call succeeds; the provider may still fail.
SpecReliable == Init /\ [][NextReliable]_vars

\* The deployment without OPENAI_API_KEY.
InitMock == Init /\ ~openai

\* The steps of a run in that deployment while every storage call succeeds.
MockRunStep(r) ==
  \/ GetApplication(r)
  \/ GetScreeningResult(r)
  \/ CreateScreeningResult(r)
  \/ UpdateProcessing(r)
  \/ Evaluate(r)
  \/ CompleteWrite(r)

\* The applicationId a manual trigger carries next to apply requests: the
\* first id an apply request creates, triggered before or after it exists.
NewAppIdInputs == {3}

\* Apply requests and manual triggers, and the runs they start.
NextRequests ==
  \/ \E q \in ApplyRequests :
       \/ \E seekerId \in UserIds, jobId \in JobIds : ApplyList(q, seekerId, jobId)
       \/ ApplyReject(q)
       \/ \E r \in Runs : ApplyCreate(q, r)
  \/ \E r \in Runs :
       \/ \E applicationId \in NewAppIdInputs : Trigger(r, applicationId)
       \/ MockRunStep(r)

SpecRequests == InitMock /\ [][NextRequests]_vars

\* The employer's status updates next to manual triggers and their runs,
\* storage calls rejecting at any await.
NextStatus ==
  \/ \E id \in AppIdInputs, status \in StatusInputs : UpdateStatus(id, status)
  \/ \E r \in Runs :
       \/ \E applicationId \in AppIdInputs : Trigger(r, applicationId)
       \/ MockRunStep(r)
       \/ CatchGet(r)
       \/ CatchUpdate(r)
       \/ StorageThrows(r)
       \/ HandlerThrows(r)

SpecStatus == InitMock /\ [][NextStatus]_vars

----------------------------------------------------------------------------
\* Vocabulary of the properties.

\* The ids of the screening_results rows of an application.
RowsIn(table, applicationId) ==
  {id \in 1..Len(table) : table[id].applicationId = applicationId}

RowsOf(applicationId) == RowsIn(screeningResults, applicationId)

\* The runs triggered so far for an application.
Triggered(applicationId) ==
  {r \in Runs : runs[r].pc # "idle" /\ runs[r].appId = applicationId}

\* Run r takes the step.
Steps(r) == runs'[r] # runs[r]

\* Run r ends in the step.
Ends(r) == runs[r].pc # "done" /\ runs'[r].pc = "done"

\* The step leaves the result columns of every row alone.
ResultColumnsKept ==
  \A id \in 1..Len(screeningResults) : \A c \in ResultColumns :
    screeningResults'[id][c] = screeningResults[id][c]

Terminal == {"complete", "failed"}

----------------------------------------------------------------------------
C2_NoRowLeftProcessing ==
  \A a \in DOMAIN applications :
    ( /\ Cardinality(Triggered(a)) >= 2
      /\ \A r \in Triggered(a) : runs[r].pc = "done" )
    => \A id \in RowsOf(a) : screeningResults[id].aiStatus \in Terminal

\* C3: an application never has two ScreeningResult rows, and has exactly one
\* as soon as one of its runs is past the create-or-fetch step.
C3_ExactlyOneRow ==
  \A a \in AppIdInputs :
    /\ Cardinality(RowsOf(a)) <= 1
    /\ (\E r \in Triggered(a) : runs[r].pc \in {"evaluate", "complete"})
         => Cardinality(RowsOf(a)) = 1

\* C4: every change of a row's aiStatus is pending->processing,
\* processing->complete, processing->failed, failed->processing or
\* complete->processing.
C4_AllowedTransitions ==
  [][\A id \in 1..Len(screeningResults) :
       screeningResults'[id].aiStatus # screeningResults[id].aiStatus
       => <<screeningResults[id].aiStatus, screeningResults'[id].aiStatus>> \in
            { <<"pending", "processing">>, <<"processing", "complete">>,
              <<"processing", "failed">>, <<"failed", "processing">>,
              <<"complete", "processing">> }]_vars

\* C5: no step of a run other than its successful terminal write changes
\* rulesScore, semanticScore, finalScore, reasons, aiSummary or aiQuestions of
\* any row; so a failing run, whose only writes are processing and failed,
\* leaves the values of an earlier successful run in place.
C5_FailureKeepsResultColumns ==
  [][\A r \in Runs :
       (Steps(r) /\ runs'[r].outcome # "complete") => ResultColumnsKept]_vars

\* A row is failed and still carries the scores of an earlier successful run.
C5_Witness ==
  \E id \in 1..Len(screeningResults) :
    /\ screeningResults[id].aiStatus = "failed"
    /\ screeningResults[id].rulesScore # NULL
    /\ \E r \in Runs : runs[r].outcome = "failed"
                       /\ runs[r].appId = screeningResults[id].applicationId

C7_NotFoundWritesNothing ==
  [][\A r \in Runs :
       (Steps(r) /\ ~getApplication(runs'[r].appId))
       => screeningResults' = screeningResults]_vars

\* A run for an identifier without application has ended at the early return,
\* while rows of other applications exist.
C7_Witness ==
  \E r \in Runs :
    /\ runs[r].outcome = "aborted"
    /\ ~getApplication(runs[r].appId)
    /\ Len(screeningResults) > 0

\* C8: no run ends with an exception escaping it.
C8_NoExceptionEscapes ==
  \A r \in Runs : runs[r].outcome # "rejected"

C10_FinalScoreIsAggregate ==
  \A id \in 1..Len(screeningResults) :
    LET row == screeningResults[id]
        weighted == (4 * row.rulesScore[1] + 6 * row.semanticScore[1] + 5) \div 10
        clamped == IF weighted < 0 THEN 0 ELSE IF weighted > 100 THEN 100 ELSE weighted
    IN ( /\ row.aiStatus = "complete"
         /\ row.rulesScore # NULL
         /\ row.semanticScore # NULL )
       => row.finalScore = Some(clamped)

\* C11: with no provider configured, a run for an application whose candidate
\* has all required skills and at least minYears of experience persists
\* rulesScore 100 and finalScore 88.
C11_MockScenarioScores ==
  \A id \in 1..Len(screeningResults) :
    LET row == screeningResults[id]
        app == applications[row.applicationId]
    IN ( /\ ~openai
         /\ row.aiStatus = "complete"
         /\ JobFacts[app.jobId].requiredSkills \subseteq SeekerFacts[app.seekerId].skills
         /\ SeekerFacts[app.seekerId].experienceYears >= JobFacts[app.jobId].minYears )
       => /\ row.rulesScore = Some(100)
          /\ row.finalScore = Some(88)

\* C12: in every state rulesScore, semanticScore and finalScore of a row are
\* all null or all set.
C12_ScoresSetTogether ==
  \A id \in 1..Len(screeningResults) :
    LET row == screeningResults[id]
        set == {c \in {"rulesScore", "semanticScore", "finalScore"} : row[c] # NULL}
    IN Cardinality(set) \in {0, 3}

\* C13: in every state each of rulesScore, semanticScore and finalScore of a
\* row is null or an integer from 0 to 100.
C13_ScoresInRange ==
  \A id \in 1..Len(screeningResults) :
    \A c \in {"rulesScore", "semanticScore", "finalScore"} :
      \/ screeningResults[id][c] = NULL
      \/ screeningResults[id][c][1] \in 0..100

\* C14: a successful terminal write leaves the row complete and, for every
\* field the provider's object lacks, holding the default: 0 for a score, the
\* empty sequence for reasons and questions, the empty string for the summary.
C14_MissingFieldsDefaulted ==
  [][\A r \in Runs :
       (Steps(r) /\ runs'[r].outcome = "complete") =>
         LET row == screeningResults'[runs[r].screening]
             default == [rulesScore |-> Some(0), semanticScore |-> Some(0),
                         finalScore |-> Some(0), reasons |-> Some(<<>>),
                         aiSummary |-> Some(""), aiQuestions |-> Some(<<>>)]
         IN /\ row.aiStatus = "complete"
            /\ \A c \in ResultColumns :
                 ResponseField[c] \notin DOMAIN runs[r].aiResponse
                 => row[c] = default[c]]_vars

\* C15: the result columns of a row change only in the step in which a run
\* ends successfully, and after that step the row is complete and holds every
\* field of that run's answer: the values and the status are written together.
C15_TerminalWriteIsOneUpdate ==
  [][/\ \A id \in 1..Len(screeningResults) :
          (\E c \in ResultColumns : screeningResults'[id][c] # screeningResults[id][c])
          => \E r \in Runs : /\ Steps(r)
                             /\ runs'[r].outcome = "complete"
                             /\ runs[r].screening = id
     /\ \A r \in Runs :
          (Steps(r) /\ runs'[r].outcome = "complete") =>
            LET row == screeningResults'[runs[r].screening]
            IN /\ row.aiStatus = "complete"
               /\ \A c \in ResultColumns :
                    ResponseField[c] \in DOMAIN runs[r].aiResponse
                    => row[c] = Some(runs[r].aiResponse[ResponseField[c]])]_vars

\* A run has ended successfully and its row is complete with all six result
\* columns set.
C15_Witness ==
  \E r \in Runs :
    /\ runs[r].outcome = "complete"
    /\ \E id \in RowsOf(runs[r].appId) :
         /\ screeningResults[id].aiStatus = "complete"
         /\ \A c \in ResultColumns : screeningResults[id][c] # NULL

\* C16: with no provider configured, the complete rows of two applications
\* with identical job and candidate facts carry the same semanticScore,
\* aiSummary and aiQuestions.
C16_MockDeterminism ==
  ~openai =>
    \A i, j \in 1..Len(screeningResults) :
      LET a == applications[screeningResults[i].applicationId]
          b == applications[screeningResults[j].applicationId]
      IN ( /\ screeningResults[i].aiStatus = "complete"
           /\ screeningResults[j].aiStatus = "complete"
           /\ JobFacts[a.jobId] = JobFacts[b.jobId]
           /\ SeekerFacts[a.seekerId] = SeekerFacts[b.seekerId] )
         => \A c \in {"semanticScore", "aiSummary", "aiQuestions"} :
              screeningResults[i][c] = screeningResults[j][c]

\* With no provider configured, the rows of two different applications are
\* both complete.
C16_Witness ==
  /\ ~openai
  /\ \E i, j \in 1..Len(screeningResults) :
       /\ screeningResults[i].applicationId # screeningResults[j].applicationId
       /\ screeningResults[i].aiStatus = "complete"
       /\ screeningResults[j].aiStatus = "complete"

\* C20: when the read of an existing application with its job and seeker
\* throws, the application has a ScreeningResult with aiStatus failed once the
\* run has ended.
C20_FactReadFailureEndsFailed ==
  [][\A r \in Runs :
       ( /\ Ends(r)
         /\ runs'[r].outcome = "failed"
         /\ runs[r].err = "getApplication"
         /\ runs[r].appId \in DOMAIN applications )
       => \E id \in RowsIn(screeningResults', runs[r].appId) :
            screeningResults'[id].aiStatus = "failed"]_vars

\* C17: the handler that triggers screening has sent its response as soon as
\* the run is started, at the run's first await and whatever the run does
\* later; this holds for the apply handler and the manual re-process handler.
C17_ResponseDoesNotAwaitRun ==
  /\ \A r \in Runs : runs[r].pc # "idle" => runs[r].responded
  /\ \A q \in ApplyRequests :
       applies[q].pc = "done" => applies[q].response \in {201, 400}

\* An apply request has its 201 and a manual trigger of the same application
\* its response while both runs wait at their first await and no
\* ScreeningResult exists.
C17_Witness ==
  /\ \E q \in ApplyRequests : applies[q].response = 201
  /\ \E r, p \in Runs :
       /\ r # p
       /\ runs[r].appId = runs[p].appId
       /\ runs[r].appId \in DOMAIN applications
       /\ runs[r].responded /\ runs[r].pc = "getApplication"
       /\ runs[p].responded /\ runs[p].pc = "getApplication"
  /\ screeningResults = <<>>

\* C18: no two applications have the same jobId and seekerId.
C18_OneApplicationPerPair ==
  \A a, b \in DOMAIN applications :
    ( /\ applications[a].jobId = applications[b].jobId
      /\ applications[a].seekerId = applications[b].seekerId )
    => a = b

\* C19: the status of an application changes in no step of a screening run;
\* a step that changes it takes no run forward and writes no ScreeningResult.
C19_RunsKeepApplicationStatus ==
  [][(\E id \in DOMAIN applications :
        applications'[id].status # applications[id].status)
     => /\ runs' = runs
        /\ screeningResults' = screeningResults]_vars

\* Runs of an application have ended, one successfully and one failed, and
\* the application still has the status the employer gave it.
C19_Witness ==
  \E r, q \in Runs :
    /\ runs[r].outcome = "complete"
    /\ runs[q].outcome = "failed"
    /\ runs[q].appId = runs[r].appId
    /\ applications[runs[r].appId].status = "rejected"

\* C21: a ScreeningResult row is created with aiStatus pending.
C21_CreatedPending ==
  [][Len(screeningResults') > Len(screeningResults)
     => screeningResults'[Len(screeningResults')].aiStatus = "pending"]_vars

\* C22: the step in which a run finds an existing row and marks it sets that
\* row's aiStatus to processing whatever it was, and changes no other column
\* of it and no other row.
C22_ReprocessChangesOnlyStatus ==
  [][\A r \in Runs :
       ( /\ runs[r].pc = "ensure"
         /\ runs[r].screening # 0
         /\ runs'[r].pc = "evaluate" )
       => /\ screeningResults'[runs[r].screening].aiStatus = "processing"
          /\ screeningResults' =
               [screeningResults EXCEPT ![runs[r].screening].aiStatus = "processing"]]_vars

\* A run has put a row back in processing that still carries the six result
\* columns of an earlier successful run.
C22_Witness ==
  \E r \in Runs :
    /\ runs[r].pc = "evaluate"
    /\ runs[r].screening # 0
    /\ screeningResults[runs[r].screening].aiStatus = "processing"
    /\ \A c \in ResultColumns : screeningResults[runs[r].screening][c] # NULL

\* C23: an apply request that ends with "Already applied" inserts no
\* application and starts no run; one that ends with 201 inserts one
\* application and starts exactly one run, for that application; the first
\* part of the handler inserts and starts nothing.
C23_ApplyStartsOneRunForItsApplication ==
  [][\A q \in ApplyRequests :
       applies'[q] # applies[q] =>
         LET started == {r \in Runs : runs'[r] # runs[r]}
             created == DOMAIN applications' \ DOMAIN applications
         IN IF applies'[q].response = 201
            THEN /\ Cardinality(created) = 1
                 /\ Cardinality(started) = 1
                 /\ \A r \in started :
                      /\ runs[r].pc = "idle"
                      /\ runs'[r].pc = "getApplication"
                      /\ runs'[r].appId \in created
                 /\ \A id \in created :
                      /\ applications'[id].seekerId = applies[q].seekerId
                      /\ applications'[id].jobId = applies[q].jobId
            ELSE /\ created = {}
                 /\ started = {}
                 /\ applies'[q].response = 400 => applies[q].already]_vars

\* One apply request was answered "Already applied", another 201, and the
\* only runs started are for applications the requests created.
C23_Witness ==
  /\ \E q \in ApplyRequests : applies[q].response = 400
  /\ \E q \in ApplyRequests : applies[q].response = 201
  /\ \E r \in Runs : runs[r].pc # "idle" /\ runs[r].appId \in DOMAIN applications

\* C24: a step of a run creates or changes only rows of screening_results
\* whose applicationId is the run's; the rows of every other application stay
\* as they are.
C24_RunWritesOwnApplicationOnly ==
  [][\A r \in Runs :
       Steps(r) =>
         /\ \A id \in 1..Len(screeningResults) :
              screeningResults'[id] # screeningResults[id]
              => /\ screeningResults[id].applicationId = runs'[r].appId
                 /\ screeningResults'[id].applicationId = runs'[r].appId
         /\ \A id \in (Len(screeningResults) + 1)..Len(screeningResults') :
              screeningResults'[id].applicationId = runs'[r].appId]_vars

\* Runs of two different applications have ended, one successfully and one
\* failed, and each application has its own row.
C24_Witness ==
  \E r, p \in Runs :
    /\ runs[r].appId # runs[p].appId
    /\ runs[r].outcome = "complete"
    /\ runs[p].outcome = "failed"
    /\ \E id \in RowsOf(runs[r].appId) : screeningResults[id].aiStatus = "complete"
    /\ \E id \in RowsOf(runs[p].appId) : screeningResults[id].aiStatus = "failed"

====
